---- MODULE Spec2Model ----
(***************************************************************************)
(* Model of transpiler.cpp: a line-oriented reader of a small model        *)
(* description (model / input / layer lines) followed by a validator and   *)
(* an Eigen/C++ emitter, plus the two built-in self tests (the parser      *)
(* test and the numpy/Python emission test).                               *)
(*                                                                         *)
(* Input lines are sequences of one-character strings, so that             *)
(* std::string::find and the formatted extraction of std::istringstream    *)
(* are computed character by character.  Emitted text is a sequence of     *)
(* strings, one per `<<` statement chain of the source.                    *)
(***************************************************************************)
EXTENDS Integers, Sequences, FiniteSets, TLC

\* ------------------------------------------------------------------------
\* Bounds of the model
\* ------------------------------------------------------------------------
\* longest freely composed input document (in lines)
MaxLines == 3
\* longest layer list handed directly to the emitters (SpecGen)
MaxLayers == 2

\* ------------------------------------------------------------------------
\* Program constants
\* ------------------------------------------------------------------------
\* int is 32 bits wide: std::numeric_limits<int>::max() and min()
INT_MAX == 2147483647
INT_MIN == (-2147483647) - 1
\* exit status of a process killed by abort() after a failed assert
AbortStatus == 134

\* ------------------------------------------------------------------------
\* Characters and lines
\* ------------------------------------------------------------------------
IsSpace(c) == c \in {" ", "\t", "\n", "\r", "\f"}

DigitChars == <<"0", "1", "2", "3", "4", "5", "6", "7", "8", "9">>

IsDigit(c) == \E d \in 1..10 : DigitChars[d] = c

DigitVal(c) == (CHOOSE d \in 1..10 : DigitChars[d] = c) - 1

Spaces(n) == [i \in 1..n |-> " "]

RECURSIVE Cat(_)
\* the std::string made of the characters of s
Cat(s) == IF s = <<>> THEN "" ELSE Head(s) \o Cat(Tail(s))

\* line.find(word) == 0
StartsWith(line, word) ==
    /\ Len(line) >= Len(word)
    /\ SubSeq(line, 1, Len(word)) = word

kwModel == <<"m", "o", "d", "e", "l">>
kwInput == <<"i", "n", "p", "u", "t">>
kwLayer == <<"l", "a", "y", "e", "r">>

\* ------------------------------------------------------------------------
\* Input lines used to build documents
\* ------------------------------------------------------------------------
\* model TestModel {
LnModel ==
    <<"m","o","d","e","l"," ","T","e","s","t","M","o","d","e","l"," ","{">>
\* input: size=4
LnInput ==
    <<"i","n","p","u","t",":"," ","s","i","z","e","=","4">>
\* layer: units=8, activation="relu"
LnLayerRelu ==
    <<"l","a","y","e","r",":"," ","u","n","i","t","s","=","8",","," ","a","c",
      "t","i","v","a","t","i","o","n","=","\"","r","e","l","u","\"">>
\* layer: units=2, activation="sigmoid"
LnLayerSigmoid ==
    <<"l","a","y","e","r",":"," ","u","n","i","t","s","=","2",","," ","a","c",
      "t","i","v","a","t","i","o","n","=","\"","s","i","g","m","o","i","d",
      "\"">>
\* }
LnClose ==
    <<"}">>
\* 
LnBlank ==
    <<>>
\* # note
LnComment ==
    <<"#"," ","n","o","t","e">>
\* input: size=0
LnInputZero ==
    <<"i","n","p","u","t",":"," ","s","i","z","e","=","0">>
\* input: size = 4
LnInputSpaced ==
    <<"i","n","p","u","t",":"," ","s","i","z","e"," ","="," ","4">>
\* input: size = 0
LnInputSpacedZero ==
    <<"i","n","p","u","t",":"," ","s","i","z","e"," ","="," ","0">>
\* input: size = 99999999999
LnInputHuge ==
    <<"i","n","p","u","t",":"," ","s","i","z","e"," ","="," ","9","9","9","9",
      "9","9","9","9","9","9","9">>
\* layer: units= 8 , activation= "relu"
LnLayerSpacedRelu ==
    <<"l","a","y","e","r",":"," ","u","n","i","t","s","="," ","8"," ",","," ",
      "a","c","t","i","v","a","t","i","o","n","="," ","\"","r","e","l","u",
      "\"">>
\* layer: units= 2 , activation= "sigmoid"
LnLayerSpacedSigmoid ==
    <<"l","a","y","e","r",":"," ","u","n","i","t","s","="," ","2"," ",","," ",
      "a","c","t","i","v","a","t","i","o","n","="," ","\"","s","i","g","m",
      "o","i","d","\"">>
\* layer: units= 3 , activation= "none"
LnLayerSpacedNone ==
    <<"l","a","y","e","r",":"," ","u","n","i","t","s","="," ","3"," ",","," ",
      "a","c","t","i","v","a","t","i","o","n","="," ","\"","n","o","n","e",
      "\"">>
\* layer: units= 5 , activation= "ReLU"
LnLayerSpacedUpper ==
    <<"l","a","y","e","r",":"," ","u","n","i","t","s","="," ","5"," ",","," ",
      "a","c","t","i","v","a","t","i","o","n","="," ","\"","R","e","L","U",
      "\"">>
\* layer: units= -1 , activation= relu
LnLayerNegative ==
    <<"l","a","y","e","r",":"," ","u","n","i","t","s","="," ","-","1"," ",",",
      " ","a","c","t","i","v","a","t","i","o","n","="," ","r","e","l","u">>
\* layer
LnLayerBare ==
    <<"l","a","y","e","r">>
\* model
LnModelBare ==
    <<"m","o","d","e","l">>

\* ------------------------------------------------------------------------
\* std::istringstream: formatted extraction (operator>>)
\* A stream is [buf |-> the characters not yet read, ok |-> failbit unset].
\* Reaching the end of the buffer sets eofbit; every later extraction then
\* fails in its sentry, which is what an empty buf gives here.
\* ------------------------------------------------------------------------
Stream(line) == [buf |-> line, ok |-> TRUE]

FailedStream == [buf |-> <<>>, ok |-> FALSE]

RECURSIVE SkipWs(_)
\* the sentry's whitespace skipping (skipws is set by default)
SkipWs(buf) ==
    IF buf # <<>> /\ IsSpace(Head(buf)) THEN SkipWs(Tail(buf)) ELSE buf

RECURSIVE TakeToken(_)
\* the maximal run of non-whitespace characters at the front of buf
TakeToken(buf) ==
    IF buf = <<>> \/ IsSpace(Head(buf)) THEN <<>>
    ELSE <<Head(buf)>> \o TakeToken(Tail(buf))

RECURSIVE TakeDigits(_)
TakeDigits(buf) ==
    IF buf = <<>> \/ ~IsDigit(Head(buf)) THEN <<>>
    ELSE <<Head(buf)>> \o TakeDigits(Tail(buf))

Drop(buf, n) == SubSeq(buf, n + 1, Len(buf))

\* operator>>(std::string&): a failed sentry leaves the string as it was
ExtractString(is, cur) ==
    IF ~is.ok THEN [is |-> is, val |-> cur]
    ELSE LET b == SkipWs(is.buf) IN
         IF b = <<>> THEN [is |-> FailedStream, val |-> cur]
         ELSE LET tok == TakeToken(b) IN
              [is |-> [buf |-> Drop(b, Len(tok)), ok |-> TRUE],
               val |-> Cat(tok)]

RECURSIVE Accumulate(_, _, _)
\* num_get: the digits folded into a (non-positive) running value that is
\* clamped at lim, so that no intermediate exceeds the width of int;
\* the result is <<value, overflowed>>
Accumulate(digits, acc, lim) ==
    IF digits = <<>> THEN <<acc, FALSE>>
    ELSE LET d == DigitVal(Head(digits)) IN
         IF acc < ((lim + d) + 9) \div 10 THEN <<lim, TRUE>>
         ELSE Accumulate(Tail(digits), (acc * 10) - d, lim)

\* operator>>(int&): a failed sentry leaves the int as it was; a failed
\* conversion stores 0; an out-of-range value stores the nearest limit
ExtractInt(is, cur) ==
    IF ~is.ok THEN [is |-> is, val |-> cur]
    ELSE LET b == SkipWs(is.buf) IN
         IF b = <<>> THEN [is |-> FailedStream, val |-> cur]
         ELSE LET signed == Head(b) \in {"+", "-"}
                  neg    == Head(b) = "-"
                  body   == IF signed THEN Tail(b) ELSE b
                  digits == TakeDigits(body)
                  r      == Accumulate(digits, 0,
                                       IF neg THEN INT_MIN ELSE -INT_MAX)
              IN IF digits = <<>> THEN [is |-> FailedStream, val |-> 0]
                 ELSE IF r[2]
                      THEN [is |-> FailedStream,
                            val |-> IF neg THEN INT_MIN ELSE INT_MAX]
                      ELSE [is |-> [buf |-> Drop(body, Len(digits)),
                                    ok |-> TRUE],
                            val |-> IF neg THEN r[1] ELSE -r[1]]

\* ------------------------------------------------------------------------
\* The body of the reading loop.  st is the record of the three locals
\* modelName, inputSize, layers; junk is the indeterminate value the
\* uninitialized local `units` holds when no extraction reaches it.
\* ------------------------------------------------------------------------
IsModelLine(line) == StartsWith(line, kwModel)

IsInputLine(line) == ~IsModelLine(line) /\ StartsWith(line, kwInput)

IsLayerLine(line) ==
    ~IsModelLine(line) /\ ~StartsWith(line, kwInput) /\ StartsWith(line, kwLayer)

Recognized(line) == IsModelLine(line) \/ IsInputLine(line) \/ IsLayerLine(line)

ParseModel(st, line) ==
    LET k1 == ExtractString(Stream(line), "")
        nm == ExtractString(k1.is, st.modelName)
    IN [st EXCEPT !.modelName = nm.val]

ParseInput(st, line) ==
    LET k1 == ExtractString(Stream(line), "")
        k2 == ExtractString(k1.is, k1.val)
        k3 == ExtractString(k2.is, k2.val)
        sz == ExtractInt(k3.is, st.inputSize)
    IN [st EXCEPT !.inputSize = sz.val]

\* as ParseLayer, but a line whose values were not extracted adds no entry
ParseLayer_DropsUnextracted(st, line, junk) ==
    LET k1  == ExtractString(Stream(line), "")
        k2  == ExtractString(k1.is, k1.val)
        un  == ExtractInt(k2.is, junk)
        k3  == ExtractString(un.is, k2.val)
        k4  == ExtractString(k3.is, k3.val)
        act == ExtractString(k4.is, "")
    IN IF act.is.ok
       THEN [st EXCEPT !.layers =
                Append(@, [first |-> un.val, second |-> act.val])]
       ELSE st

ParseLayer(st, line, junk) ==
    LET k1  == ExtractString(Stream(line), "")
        k2  == ExtractString(k1.is, k1.val)
        un  == ExtractInt(k2.is, junk)
        k3  == ExtractString(un.is, k2.val)
        k4  == ExtractString(k3.is, k3.val)
        act == ExtractString(k4.is, "")
    IN [st EXCEPT !.layers =
            Append(@, [first |-> un.val, second |-> act.val])]

\* as ParseLine, but the model branch is the default one
ParseLine_ModelAsDefault(st, line, junk) ==
    IF IsInputLine(line) THEN ParseInput(st, line)
    ELSE IF IsLayerLine(line) THEN ParseLayer(st, line, junk)
    ELSE ParseModel(st, line)

ParseLine(st, line, junk) ==
    IF IsModelLine(line) THEN ParseModel(st, line)
    ELSE IF IsInputLine(line) THEN ParseInput(st, line)
    ELSE IF IsLayerLine(line) THEN ParseLayer(st, line, junk)
    ELSE st

\* the locals as declared before the loop
EmptyParse == [modelName |-> "", inputSize |-> 0, layers |-> <<>>]

\* values an uninitialized int may hold
IndeterminateInts == {-7, 0, 3}

\* as Valid, but an input size of 0 is accepted
Valid_ZeroSizeAccepted(st) ==
    st.modelName # "" /\ st.inputSize >= 0 /\ st.layers # <<>>

\* the condition guarding the call of generateModelClass
Valid(st) == st.modelName # "" /\ st.inputSize > 0 /\ st.layers # <<>>

\* ------------------------------------------------------------------------
\* Emitted text.  Each element is the text of one `<<` statement chain.
\* ------------------------------------------------------------------------
RECURSIVE Concat(_)
Concat(ss) == IF ss = <<>> THEN <<>> ELSE Head(ss) \o Concat(Tail(ss))

\* the activation strings the emitters compare with (quotes included)
ReluToken == "\"relu\""

SigmoidToken == "\"sigmoid\""

EigenRelu == "        x = x.cwiseMax(0.0);\n"

EigenSigmoid == "        x = 1.0 / (1.0 + (-x.array()).exp());\n"

EigenReturn == "        return x;\n"

EigenWeight(i, units) ==
    "        Eigen::MatrixXd W" \o ToString(i)
        \o " = Eigen::MatrixXd::Random(" \o ToString(units)
        \o ", x.cols());\n"

EigenBias(i, units) ==
    "        Eigen::VectorXd b" \o ToString(i)
        \o " = Eigen::VectorXd::Random(" \o ToString(units) \o ");\n"

EigenAffine(i) ==
    "        x = (W" \o ToString(i) \o " * x).colwise() + b"
        \o ToString(i) \o ";\n"

EigenActivation(activation) ==
    IF activation = ReluToken THEN <<EigenRelu>>
    ELSE IF activation = SigmoidToken THEN <<EigenSigmoid>>
    ELSE <<>>

\* as EigenLayer, but the activation statement precedes the affine one
EigenLayer_ActivationFirst(i, layer) ==
    << "        // Layer " \o ToString(i) \o "\n",
       EigenWeight(i, layer.first),
       EigenBias(i, layer.first) >>
    \o EigenActivation(layer.second)
    \o << EigenAffine(i), "\n" >>

\* one iteration of the loop of generateModelClass
EigenLayer(i, layer) ==
    << "        // Layer " \o ToString(i) \o "\n",
       EigenWeight(i, layer.first),
       EigenBias(i, layer.first),
       EigenAffine(i) >>
    \o EigenActivation(layer.second)
    \o << "\n" >>

\* everything generateModelClass writes to the output stream
EigenCode(modelName, inputSize, layers) ==
    << "#include <Eigen/Dense>\n\n",
       "class " \o modelName \o " {\n",
       "public:\n",
       "    " \o modelName \o "() {}\n\n",
       "    Eigen::MatrixXd forward(const Eigen::MatrixXd& input) {\n",
       "        Eigen::MatrixXd x = input;\n" >>
    \o Concat([i \in 1..Len(layers) |-> EigenLayer(i, layers[i])])
    \o << EigenReturn,
          "    }\n",
          "};\n" >>

PyRelu == "        x = np.maximum(0, x)\n"

PySigmoid == "        x = 1 / (1 + np.exp(-x))\n"

PyReturn == "        return x\n"

PyClass(modelName) == "class " \o modelName \o ":\n"

PyForward == "\n    def forward(self, x):\n"

PyCols(i, inputSize, layers) ==
    IF i = 1 THEN inputSize ELSE layers[i - 1].first

PyWeight(i, inputSize, layers) ==
    "        self.W" \o ToString(i) \o " = np.random.rand("
        \o ToString(layers[i].first) \o ", "
        \o ToString(PyCols(i, inputSize, layers)) \o ")\n"

PyBias(i, units) ==
    "        self.b" \o ToString(i) \o " = np.random.rand("
        \o ToString(units) \o ")\n"

PyAffine(i) ==
    "        x = np.dot(self.W" \o ToString(i) \o ", x) + self.b"
        \o ToString(i) \o "\n"

\* as PyActivation, but the comparison ignores the case of the letters
PyActivation_IgnoresCase(activation) ==
    IF activation \in {ReluToken, "\"ReLU\"", "\"RELU\""} THEN <<PyRelu>>
    ELSE IF activation \in {SigmoidToken, "\"Sigmoid\"", "\"SIGMOID\""}
         THEN <<PySigmoid>>
    ELSE <<>>

PyActivation(activation) ==
    IF activation = ReluToken THEN <<PyRelu>>
    ELSE IF activation = SigmoidToken THEN <<PySigmoid>>
    ELSE <<>>

\* one iteration of the first loop of testPythonTranspilation
PyInitLayer(i, inputSize, layers) ==
    << PyWeight(i, inputSize, layers), PyBias(i, layers[i].first) >>

\* one iteration of the second loop of testPythonTranspilation
PyForwardLayer(i, layer) == << PyAffine(i) >> \o PyActivation(layer.second)

\* everything testPythonTranspilation writes to pythonCode
PythonCode(modelName, inputSize, layers) ==
    << "import numpy as np\n\n",
       PyClass(modelName),
       "    def __init__(self):\n" >>
    \o Concat([i \in 1..Len(layers) |-> PyInitLayer(i, inputSize, layers)])
    \o << PyForward,
          "        x = np.array(x)\n" >>
    \o Concat([i \in 1..Len(layers) |-> PyForwardLayer(i, layers[i])])
    \o << PyReturn >>

\* the model testPythonTranspilation is written for
TestModelName == "TestModel"

TestInputSize == 4

TestLayers ==
    << [first |-> 8, second |-> ReluToken],
       [first |-> 2, second |-> SigmoidToken] >>

\* ------------------------------------------------------------------------
\* Input documents
\* ------------------------------------------------------------------------
\* the document of the specification's first scenario, one declaration per line
Scenario1 == <<LnModel, LnInput, LnLayerRelu, LnLayerSigmoid, LnClose>>

\* the same declarations with each value as a whitespace-separated token
Scenario1Spaced ==
    <<LnModel, LnInputSpaced, LnLayerSpacedRelu, LnLayerSpacedSigmoid, LnClose>>

\* the raw string literal testInput of testParser, split at its newlines
TestInput ==
    << LnBlank,
       Spaces(8) \o LnModel,
       Spaces(12) \o LnInput,
       Spaces(12) \o LnLayerRelu,
       Spaces(12) \o LnLayerSigmoid,
       Spaces(8) \o LnClose,
       Spaces(4) >>

\* Scenario1Spaced indented the way testInput is
Scenario1SpacedIndented ==
    << Spaces(8) \o LnModel,
       <<"\t">> \o LnInputSpaced,
       Spaces(12) \o LnLayerSpacedRelu,
       Spaces(12) \o LnLayerSpacedSigmoid,
       Spaces(8) \o LnClose >>

NamedDocuments ==
    { Scenario1, Scenario1Spaced, TestInput, Scenario1SpacedIndented,
      <<LnComment, LnModel, LnBlank, LnInputSpaced, LnLayerNegative, LnClose,
        LnLayerSpacedNone>>,
      <<LnModel, LnInputHuge, LnLayerSpacedUpper, LnModelBare>>,
      <<LnModel, LnInputZero, LnLayerSpacedRelu>>,
      <<LnModelBare, LnInputSpaced, LnLayerSpacedSigmoid>> }

FreeLines ==
    { LnModel, Spaces(8) \o LnModel, LnInputSpaced, LnInputSpacedZero,
      LnLayerRelu, LnLayerSpacedRelu, LnLayerBare, LnClose }

FreeDocuments == UNION {[1..n -> FreeLines] : n \in 0..MaxLines}

Documents == NamedDocuments \cup FreeDocuments

\* ------------------------------------------------------------------------
\* State
\* ------------------------------------------------------------------------
VARIABLES
    argc,        \* number of command-line words (program name included)
    canOpen,     \* whether argv[1] names a file that can be opened
    ndebug,      \* whether the build defines NDEBUG (assert compiled out)
    file,        \* the lines of the stream being read
    pos,         \* index of the next line std::getline returns
    modelName,   \* local modelName
    inputSize,   \* local inputSize
    layers,      \* local layers: sequence of [first, second] pairs
    outFile,     \* the file generateModelClass writes
    pythonCode,  \* the std::ostringstream of testPythonTranspilation
    stdout,      \* text written to std::cout
    stderr,      \* text written to std::cerr
    exitCode,    \* exit status of the process, -1 while it runs
    pc           \* position of the control flow

vars ==
    <<argc, canOpen, ndebug, file, pos, modelName, inputSize, layers,
      outFile, pythonCode, stdout, stderr, exitCode, pc>>

locals == [modelName |-> modelName, inputSize |-> inputSize, layers |-> layers]

NoFile == [created |-> FALSE, name |-> "", text |-> <<>>]

\* generateModelClass: the std::ofstream it opens and what it holds when
\* closed; a stream that failed to open creates nothing and drops the text
GenerateModelClass(name, size, lyrs, opens) ==
    IF opens
    THEN [created |-> TRUE, name |-> name \o ".cpp",
          text |-> EigenCode(name, size, lyrs)]
    ELSE NoFile

TypeOK ==
    /\ argc \in 1..3
    /\ canOpen \in BOOLEAN
    /\ ndebug \in BOOLEAN
    /\ pos \in 1..(Len(file) + 1)
    /\ inputSize \in INT_MIN..INT_MAX
    /\ outFile.created \in BOOLEAN
    /\ pc \in {"main", "parse", "validate", "assertParser", "testPython",
               "emit", "emitPython", "done"}

Init ==
    /\ argc \in 1..3
    /\ canOpen \in BOOLEAN
    /\ ndebug \in BOOLEAN
    /\ file \in (IF argc = 2 /\ canOpen THEN Documents ELSE {<<>>})
    /\ pos = 1
    /\ modelName = ""
    /\ inputSize = 0
    /\ layers = <<>>
    /\ outFile = NoFile
    /\ pythonCode = <<>>
    /\ stdout = <<>>
    /\ stderr = <<>>
    /\ exitCode = -1
    /\ pc = "main"

\* ------------------------------------------------------------------------
\* main with one argument
\* ------------------------------------------------------------------------
\* !inputFile.is_open(): report and return 1
OpenFails ==
    /\ pc = "main" /\ argc = 2 /\ ~canOpen
    /\ stderr' = Append(stderr, "Error: Could not open file\n")
    /\ exitCode' = 1
    /\ pc' = "done"
    /\ UNCHANGED <<argc, canOpen, ndebug, file, pos, modelName, inputSize,
                   layers, outFile, pythonCode, stdout>>

\* the file is open; the locals are declared
OpenInput ==
    /\ pc = "main" /\ argc = 2 /\ canOpen
    /\ pos' = 1
    /\ modelName' = EmptyParse.modelName
    /\ inputSize' = EmptyParse.inputSize
    /\ layers' = EmptyParse.layers
    /\ pc' = "parse"
    /\ UNCHANGED <<argc, canOpen, ndebug, file, outFile, pythonCode, stdout,
                   stderr, exitCode>>

\* one iteration of while (std::getline(...)), in main and in testParser
ReadLine ==
    /\ pc = "parse" /\ pos <= Len(file)
    /\ \E junk \in IndeterminateInts :
          LET st == ParseLine(locals, file[pos], junk) IN
          /\ modelName' = st.modelName
          /\ inputSize' = st.inputSize
          /\ layers' = st.layers
    /\ pos' = pos + 1
    /\ UNCHANGED <<argc, canOpen, ndebug, file, outFile, pythonCode, stdout,
                   stderr, exitCode, pc>>

\* std::getline fails at the end of the file; inputFile.close()
EndOfInput ==
    /\ pc = "parse" /\ pos > Len(file) /\ argc = 2
    /\ pc' = "validate"
    /\ UNCHANGED <<argc, canOpen, ndebug, file, pos, modelName, inputSize,
                   layers, outFile, pythonCode, stdout, stderr, exitCode>>

\* as Reject, but the output file is opened and written before the test
Reject_WritesOutput ==
    /\ pc = "validate" /\ ~Valid(locals)
    /\ outFile' = GenerateModelClass(modelName, inputSize, layers, TRUE)
    /\ stderr' = Append(stderr, "Error: Invalid input format.\n")
    /\ exitCode' = 1
    /\ pc' = "done"
    /\ UNCHANGED <<argc, canOpen, ndebug, file, pos, modelName, inputSize,
                   layers, pythonCode, stdout>>

\* the else branch of the validity test: report and return 1
Reject ==
    /\ pc = "validate" /\ ~Valid(locals)
    /\ stderr' = Append(stderr, "Error: Invalid input format.\n")
    /\ exitCode' = 1
    /\ pc' = "done"
    /\ UNCHANGED <<argc, canOpen, ndebug, file, pos, modelName, inputSize,
                   layers, outFile, pythonCode, stdout>>

\* the then branch: generateModelClass, the success message, return 0
Generate ==
    /\ pc = "validate" /\ Valid(locals)
    /\ \E opens \in BOOLEAN :
          outFile' = GenerateModelClass(modelName, inputSize, layers, opens)
    /\ stdout' = Append(stdout, "Model class generated successfully: "
                                   \o modelName \o ".cpp\n")
    /\ exitCode' = 0
    /\ pc' = "done"
    /\ UNCHANGED <<argc, canOpen, ndebug, file, pos, modelName, inputSize,
                   layers, pythonCode, stderr>>

\* ------------------------------------------------------------------------
\* main without exactly one argument: the two self tests
\* ------------------------------------------------------------------------
\* testParser up to its loop
StartSelfTest ==
    /\ pc = "main" /\ argc # 2
    /\ file' = TestInput
    /\ pos' = 1
    /\ modelName' = EmptyParse.modelName
    /\ inputSize' = EmptyParse.inputSize
    /\ layers' = EmptyParse.layers
    /\ pc' = "parse"
    /\ UNCHANGED <<argc, canOpen, ndebug, outFile, pythonCode, stdout, stderr,
                   exitCode>>

EndOfTestInput ==
    /\ pc = "parse" /\ pos > Len(file) /\ argc # 2
    /\ pc' = "assertParser"
    /\ UNCHANGED <<argc, canOpen, ndebug, file, pos, modelName, inputSize,
                   layers, outFile, pythonCode, stdout, stderr, exitCode>>

\* the five asserts of testParser, evaluated left to right
ParserAssertsHold ==
    /\ modelName = "TestModel"
    /\ inputSize = 4
    /\ Len(layers) = 2
    /\ layers[1].first = 8 /\ layers[1].second = ReluToken
    /\ layers[2].first = 2 /\ layers[2].second = SigmoidToken

\* an assert fails in a build that keeps asserts: abort()
ParserTestAborts ==
    /\ pc = "assertParser" /\ ~ndebug /\ ~ParserAssertsHold
    /\ exitCode' = AbortStatus
    /\ pc' = "done"
    /\ UNCHANGED <<argc, canOpen, ndebug, file, pos, modelName, inputSize,
                   layers, outFile, pythonCode, stdout, stderr>>

ParserTestPasses ==
    /\ pc = "assertParser" /\ (ndebug \/ ParserAssertsHold)
    /\ stdout' = Append(stdout, "Parser test passed.\n")
    /\ pc' = "testPython"
    /\ UNCHANGED <<argc, canOpen, ndebug, file, pos, modelName, inputSize,
                   layers, outFile, pythonCode, stderr, exitCode>>

\* the two asserts of testPythonTranspilation: each searched text is part of
\* exactly one emitted piece
PythonAssertsHold(code) ==
    /\ \E i \in 1..Len(code) : code[i] = "class TestModel:\n"
    /\ \E i \in 1..Len(code) : code[i] = "\n    def forward(self, x):\n"

\* testPythonTranspilation and the return 0 of main
TestPython ==
    /\ pc = "testPython"
    /\ modelName' = TestModelName
    /\ inputSize' = TestInputSize
    /\ layers' = TestLayers
    /\ pythonCode' = PythonCode(TestModelName, TestInputSize, TestLayers)
    /\ IF ndebug \/ PythonAssertsHold(pythonCode')
       THEN /\ stdout' = Append(stdout, "Python transpilation test passed.\n")
            /\ exitCode' = 0
       ELSE /\ stdout' = stdout
            /\ exitCode' = AbortStatus
    /\ pc' = "done"
    /\ UNCHANGED <<argc, canOpen, ndebug, file, pos, outFile, stderr>>

Next ==
    \/ OpenFails
    \/ OpenInput
    \/ ReadLine
    \/ EndOfInput
    \/ Reject
    \/ Generate
    \/ StartSelfTest
    \/ EndOfTestInput
    \/ ParserTestAborts
    \/ ParserTestPasses
    \/ TestPython

Spec == Init /\ [][Next]_vars

\* ------------------------------------------------------------------------
\* The two emitters applied to arbitrary valid models
\* ------------------------------------------------------------------------
GenNames == {"TestModel", "M"}

GenSizes == {1, 4}

GenUnits == {2, 8}

GenActivations == {ReluToken, SigmoidToken, "\"none\"", "\"ReLU\"", "relu", ""}

GenLayer == [first : GenUnits, second : GenActivations]

GenLayerLists == UNION {[1..n -> GenLayer] : n \in 1..MaxLayers}

InitGen ==
    /\ argc = 2
    /\ canOpen = TRUE
    /\ ndebug = FALSE
    /\ file = <<>>
    /\ pos = 1
    /\ modelName \in GenNames
    /\ inputSize \in GenSizes
    /\ layers \in GenLayerLists
    /\ outFile = NoFile
    /\ pythonCode = <<>>
    /\ stdout = <<>>
    /\ stderr = <<>>
    /\ exitCode = -1
    /\ pc = "emit"

\* generateModelClass(modelName, inputSize, layers)
EmitEigen ==
    /\ pc = "emit"
    /\ outFile' = GenerateModelClass(modelName, inputSize, layers, TRUE)
    /\ pc' = "emitPython"
    /\ UNCHANGED <<argc, canOpen, ndebug, file, pos, modelName, inputSize,
                   layers, pythonCode, stdout, stderr, exitCode>>

\* the emission loops of testPythonTranspilation on the same model
EmitPython ==
    /\ pc = "emitPython"
    /\ pythonCode' = PythonCode(modelName, inputSize, layers)
    /\ pc' = "done"
    /\ UNCHANGED <<argc, canOpen, ndebug, file, pos, modelName, inputSize,
                   layers, outFile, stdout, stderr, exitCode>>

NextGen ==
    \/ EmitEigen
    \/ EmitPython

SpecGen == InitGen /\ [][NextGen]_vars

\* ------------------------------------------------------------------------
\* Helpers of the properties
\* ------------------------------------------------------------------------
\* the line starts with one of the three keywords
HasKnownPrefix(line) ==
    \/ StartsWith(line, kwModel)
    \/ StartsWith(line, kwInput)
    \/ StartsWith(line, kwLayer)

RECURSIVE ParseResults(_, _)
\* every value the three locals may have after the loop has read doc,
\* starting from one of sts
ParseResults(sts, doc) ==
    IF doc = <<>> THEN sts
    ELSE ParseResults({ParseLine(s, Head(doc), j) :
                          s \in sts, j \in IndeterminateInts}, Tail(doc))

\* the lines read so far
Consumed == SubSeq(file, 1, pos - 1)

\* doc with the leading whitespace of every line removed
Unindented(doc) == [i \in DOMAIN doc |-> SkipWs(doc[i])]

Count(code, s) == Cardinality({k \in DOMAIN code : code[k] = s})

Contains(code, s) == \E k \in DOMAIN code : code[k] = s

IndexOf(code, s) == CHOOSE k \in DOMAIN code : code[k] = s

\* the pieces of code strictly between the pieces from and to
Between(code, from, to) ==
    SubSeq(code, IndexOf(code, from) + 1, IndexOf(code, to) - 1)

\* the main path has read the whole document
ParsedAll == pc = "validate" /\ argc = 2

\* the expected result of the first scenario
Scenario1Result ==
    [modelName |-> "TestModel", inputSize |-> 4,
     layers |-> << [first |-> 8, second |-> "\"relu\""],
                   [first |-> 2, second |-> "\"sigmoid\""] >>]

\* ------------------------------------------------------------------------
\* C1
\* ------------------------------------------------------------------------
\* C1: parsing the five-line document of the first scenario (model TestModel,
\* input: size=4, two layer lines, closing brace) yields the name TestModel,
\* the input size 4 and the layers (8, "relu"), (2, "sigmoid") in that order.
C1_Scenario1Parses ==
    (ParsedAll /\ file = Scenario1) => locals = Scenario1Result

\* ------------------------------------------------------------------------
\* C2
\* ------------------------------------------------------------------------
\* C2: classification ignores leading whitespace: a document parses to the
\* same name, input size and layers as the document with every line's
\* indentation removed.
C2_IndentationIgnored ==
    ParsedAll => locals \in ParseResults({EmptyParse}, Unindented(file))

\* ------------------------------------------------------------------------
\* C3
\* ------------------------------------------------------------------------
\* C3: once all lines are consumed the run ends with exit code 1 (and a
\* message on the error stream) when the name is empty, or the input size is
\* not positive, or there is no layer -- in particular when the document has
\* no model line, no layer line, or no input line other than a size of 0 --
\* and it ends with exit code 0 when the name is non-empty, the input size is
\* positive and there is at least one layer.
C3_Validation ==
    (pc = "done" /\ argc = 2 /\ canOpen) =>
        /\ (modelName = "" \/ inputSize <= 0 \/ layers = <<>>)
              => (exitCode = 1 /\ stderr # <<>>)
        /\ (modelName # "" /\ inputSize > 0 /\ layers # <<>>)
              => (exitCode = 0 /\ stderr = <<>>)
        /\ (\A i \in DOMAIN file : ~StartsWith(file[i], kwModel))
              => exitCode = 1
        /\ (\A i \in DOMAIN file : ~StartsWith(file[i], kwLayer))
              => exitCode = 1
        /\ (\A i \in DOMAIN file :
                StartsWith(file[i], kwInput)
                    => file[i] \in {LnInputZero, LnInputSpacedZero})
              => exitCode = 1

\* a run rejected only for its input size, which a line set to 0
C3_Witness ==
    /\ pc = "done" /\ argc = 2 /\ exitCode = 1
    /\ modelName # "" /\ layers # <<>> /\ inputSize = 0
    /\ \E i \in DOMAIN file : file[i] = LnInputSpacedZero

\* ------------------------------------------------------------------------
\* C4
\* ------------------------------------------------------------------------
\* C4: the output file exists only in a run that has consumed the whole
\* input and passed validation; a run that ends in an error (unopenable
\* input, failed validation, empty document) never creates or writes it.
C4_NoOutputOnError ==
    /\ outFile.created =>
          /\ argc = 2 /\ canOpen /\ pos > Len(file)
          /\ modelName # "" /\ inputSize > 0 /\ layers # <<>>
          /\ pc = "done" /\ exitCode = 0
    /\ (exitCode # 0 \/ pc # "done") => outFile = NoFile

\* the empty document: rejected, nothing written
C4_Witness ==
    /\ pc = "done" /\ argc = 2 /\ canOpen /\ file = <<>>
    /\ exitCode = 1 /\ outFile = NoFile

\* ------------------------------------------------------------------------
\* C5
\* ------------------------------------------------------------------------
\* a C++ declaration of weight i with rows x cols random entries
EigenWeightOfShape(i, rows, cols) ==
    "        Eigen::MatrixXd W" \o ToString(i)
        \o " = Eigen::MatrixXd::Random(" \o ToString(rows)
        \o ", " \o ToString(cols) \o ");\n"

\* a Python declaration of weight i with rows x cols random entries
PyWeightOfShape(i, rows, cols) ==
    "        self.W" \o ToString(i) \o " = np.random.rand("
        \o ToString(rows) \o ", " \o ToString(cols) \o ")\n"

\* the column count weight i must have
ColsBefore(i) == IF i = 1 THEN inputSize ELSE layers[i - 1].first

\* C5: the generated code of either profile declares, for each of the n
\* layers, exactly one weight of shape (u_i, u_{i-1}) -- (u_1, s) for the
\* first -- and one bias of shape (u_i).
C5_WeightShapes ==
    /\ (outFile.created /\ \A j \in DOMAIN layers : layers[j].first > 0) =>
          \A i \in DOMAIN layers :
              /\ Count(outFile.text,
                       EigenWeightOfShape(i, layers[i].first, ColsBefore(i))) = 1
              /\ Count(outFile.text, EigenBias(i, layers[i].first)) = 1
    /\ pythonCode # <<>> =>
          \A i \in DOMAIN layers :
              /\ Count(pythonCode,
                       PyWeightOfShape(i, layers[i].first, ColsBefore(i))) = 1
              /\ Count(pythonCode, PyBias(i, layers[i].first)) = 1

\* ------------------------------------------------------------------------
\* C6
\* ------------------------------------------------------------------------
\* the piece that ends layer i's part of a forward method
EigenNext(i) == IF i < Len(layers) THEN EigenAffine(i + 1) ELSE EigenReturn

PyNext(i) == IF i < Len(layers) THEN PyAffine(i + 1) ELSE PyReturn

\* C6: in both profiles a layer whose activation string is exactly "relu"
\* (quotes included) gets exactly one max-with-zero statement and no logistic
\* one, a layer whose string is exactly "sigmoid" gets exactly one logistic
\* statement and no max-with-zero, and any other string ("none", "ReLU",
\* relu without quotes, the empty string) gets neither.
C6_ActivationMapping ==
    (pc = "done" /\ outFile.created /\ pythonCode # <<>>) =>
        \A i \in DOMAIN layers :
            LET a  == layers[i].second
                es == Between(outFile.text, EigenAffine(i), EigenNext(i))
                ps == Between(pythonCode, PyAffine(i), PyNext(i))
            IN /\ Count(es, EigenRelu) = (IF a = "\"relu\"" THEN 1 ELSE 0)
               /\ Count(ps, PyRelu) = (IF a = "\"relu\"" THEN 1 ELSE 0)
               /\ Count(es, EigenSigmoid) = (IF a = "\"sigmoid\"" THEN 1 ELSE 0)
               /\ Count(ps, PySigmoid) = (IF a = "\"sigmoid\"" THEN 1 ELSE 0)

\* both emitters ran on a model with a differently cased and an exact string
C6_Witness ==
    /\ pc = "done" /\ outFile.created /\ pythonCode # <<>>
    /\ Len(layers) = 2
    /\ layers[1].second = "\"ReLU\""
    /\ layers[2].second = "\"relu\""
    /\ Count(pythonCode, PyRelu) = 1

\* ------------------------------------------------------------------------
\* C7
\* ------------------------------------------------------------------------
\* C7: a model handed to the generator has a non-empty name, a positive
\* input size, at least one layer, and a positive unit count in every layer.
C7_GeneratedModelInvariant ==
    (pc = "done" /\ argc = 2 /\ exitCode = 0) =>
        /\ modelName # ""
        /\ inputSize > 0
        /\ layers # <<>>
        /\ \A i \in DOMAIN layers : layers[i].first > 0

\* ------------------------------------------------------------------------
\* C8
\* ------------------------------------------------------------------------
\* the affine statements of the layers, in layer order
EigenAffines == [i \in DOMAIN layers |-> EigenAffine(i)]

PyAffines == [i \in DOMAIN layers |-> PyAffine(i)]

\* the statements of a forward method are in layer order in code: each affine
\* statement occurs once, before the next layer's, an activation statement
\* directly follows the affine statement of its layer, and the one return
\* statement comes after the last layer's statements
InLayerOrder(code, affine, relu, sigmoid, ret) ==
    /\ Count(code, ret) = 1
    /\ \A i \in DOMAIN layers :
          LET k == IndexOf(code, affine[i])
              n == IF i < Len(layers) THEN IndexOf(code, affine[i + 1])
                   ELSE IndexOf(code, ret)
          IN /\ Count(code, affine[i]) = 1
             /\ k < n
             /\ layers[i].second = "\"relu\"" => code[k + 1] = relu
             /\ layers[i].second = "\"sigmoid\"" => code[k + 1] = sigmoid
             /\ \A j \in (k + 1)..(n - 1) :
                   code[j] \in {relu, sigmoid} => j = k + 1
    /\ \A j \in DOMAIN code :
          code[j] \in {relu, sigmoid} => j > IndexOf(code, affine[1])
    /\ \A j \in DOMAIN code :
          j > IndexOf(code, ret) => code[j] \notin {relu, sigmoid}

\* C8: in the forward method of either profile the affine statement of
\* layer i (with W_i and b_i) is followed directly by layer i's activation
\* statement, if it has one, and then by layer i+1's statements, and a single
\* return x follows the last layer; for TestModel with input size 4 and the
\* layers (8, "relu"), (2, "sigmoid") the Python text has class TestModel, a
\* forward method, the weight shapes (8, 4) then (2, 8), the max-with-zero
\* after layer 1 and the logistic expression after layer 2.
C8_ForwardOrder ==
    (pc = "done" /\ outFile.created /\ pythonCode # <<>>) =>
        /\ InLayerOrder(outFile.text, EigenAffines, EigenRelu, EigenSigmoid,
                        EigenReturn)
        /\ InLayerOrder(pythonCode, PyAffines, PyRelu, PySigmoid, PyReturn)
        /\ pythonCode[Len(pythonCode)] = PyReturn
        /\ (modelName = "TestModel" /\ inputSize = 4 /\ layers = TestLayers) =>
              LET at(s) == IndexOf(pythonCode, s) IN
              /\ Contains(pythonCode, "class TestModel:\n")
              /\ Contains(pythonCode, "\n    def forward(self, x):\n")
              /\ Contains(pythonCode, "        self.W1 = np.random.rand(8, 4)\n")
              /\ Contains(pythonCode, "        self.W2 = np.random.rand(2, 8)\n")
              /\ at("        self.W1 = np.random.rand(8, 4)\n")
                    < at("        self.W2 = np.random.rand(2, 8)\n")
              /\ at("        x = np.dot(self.W1, x) + self.b1\n") + 1
                    = at("        x = np.maximum(0, x)\n")
              /\ at("        x = np.dot(self.W2, x) + self.b2\n") + 1
                    = at("        x = 1 / (1 + np.exp(-x))\n")
              /\ at("        x = np.maximum(0, x)\n")
                    < at("        x = np.dot(self.W2, x) + self.b2\n")

\* both emitters ran on the two-layer model of the second scenario
C8_Witness ==
    /\ pc = "done" /\ outFile.created /\ pythonCode # <<>>
    /\ modelName = "TestModel" /\ inputSize = 4 /\ layers = TestLayers
    /\ Len(pythonCode) = 14

\* ------------------------------------------------------------------------
\* C9
\* ------------------------------------------------------------------------
\* reading a line without a known prefix changes none of the three locals
\* and reports nothing
SkipIsSilent ==
    (pc = "parse" /\ pos <= Len(file) /\ ~HasKnownPrefix(file[pos])) =>
        /\ UNCHANGED <<modelName, inputSize, layers>>
        /\ UNCHANGED <<stderr, exitCode, outFile>>
        /\ pc' = "parse"

\* the locals are a result of reading only the lines with a known prefix
SkippedLinesDoNotCount ==
    (pc \in {"parse", "validate"}) =>
        locals \in ParseResults({EmptyParse},
                                SelectSeq(Consumed, HasKnownPrefix))

\* C9: a line that starts with none of model, input, layer (a blank line, a
\* comment, the closing brace, an indented line) leaves the name, the input
\* size and the layers unchanged and raises no error, so the parse result is
\* the result of the document with all such lines removed.
C9_UnknownLinesSkipped ==
    [][SkipIsSilent]_vars /\ []SkippedLinesDoNotCount

\* a comment, a blank line and a closing brace were read between declarations
C9_Witness ==
    /\ ParsedAll
    /\ Contains(file, LnComment) /\ Contains(file, LnBlank)
    /\ Contains(file, LnClose)
    /\ modelName = "TestModel" /\ inputSize = 4 /\ Len(layers) = 2

\* ------------------------------------------------------------------------
\* C10
\* ------------------------------------------------------------------------
\* a line starting with layer appends one entry and keeps the earlier ones;
\* any other line leaves the layers as they are
LayersAppendOnly ==
    (pc = "parse" /\ pos <= Len(file)) =>
        IF StartsWith(file[pos], kwLayer)
        THEN /\ Len(layers') = Len(layers) + 1
             /\ SubSeq(layers', 1, Len(layers)) = layers
        ELSE layers' = layers

LayersMirrorDocument ==
    (pc \in {"parse", "validate"}) =>
        Len(layers) =
            Cardinality({i \in 1..(pos - 1) : StartsWith(file[i], kwLayer)})

\* C10: during parsing every layer line appends exactly one entry at the end
\* of the layer sequence, extracted or not, before or after the closing
\* brace; no other line changes the sequence; so the number of layers is the
\* number of layer lines read so far and earlier entries are never changed.
C10_LayersAppendOnly ==
    [][LayersAppendOnly]_vars /\ []LayersMirrorDocument

\* a layer line after the closing brace and one whose values were not
\* extracted were both appended
C10_Witness ==
    /\ ParsedAll
    /\ \E i, j \in DOMAIN file :
          i < j /\ file[i] = LnClose /\ StartsWith(file[j], kwLayer)
    /\ Len(layers) = 2
    /\ layers[1].second = ""
====
